---- MODULE Spec2Model ----
(***************************************************************************)
(* Model of the resilient push-channel client (class WebSocketClient) of   *)
(* the API client module, src/unnamed/part_000 lines 364-447, together     *)
(* with the browser objects it drives: the persisted credential            *)
(* (localStorage 'access_token'), the WebSocket objects it constructs and  *)
(* the timers it arms with setTimeout.                                     *)
(*                                                                         *)
(* Everything runs on one event loop, so every handler is one atomic       *)
(* action.  The client never detaches a handler, so every object it        *)
(* constructed keeps calling back into it until that object is closed.     *)
(* Objects that this.ws no longer references differ only in readyState,    *)
(* and armed timers only in their delay, so both are kept as bags.  An     *)
(* object and a timer also carry history flags that no handler reads.      *)
(* Pending timers may fire in any order relative to each other and to      *)
(* socket events, which over-approximates the browser's deadline order.    *)
(*                                                                         *)
(* The Request Client of the same module (apiRequest, authApi.login,       *)
(* authApi.logout, benchmarkApi.export, uploadFile; lines 20-76, 278-293,  *)
(* 452-482) shares the credential with it.  Each of its calls is two       *)
(* steps: the synchronous part up to fetch(), and the part that runs once  *)
(* the response (or the network failure) is there.  The awaits on fetch()  *)
(* and on response.json() are one step: nothing between them reads or      *)
(* writes state another task can see.                                      *)
(***************************************************************************)
EXTENDS Integers, Sequences, FiniteSets, Bags, TLC

VARIABLES
    token,              \* localStorage 'access_token': NULL or a string
    ws,                 \* this.ws: "null", or the readyState of the object it references
    orphans,            \* bag of the unclosed objects this.ws no longer references
    reconnectAttempts,  \* this.reconnectAttempts
    timers,             \* bag of pending setTimeout callbacks armed by attemptReconnect
    quota,              \* the run's limits: objects and timers at once, messages delivered
    disconnected,       \* history: disconnect() was the consumer's last connect/disconnect call
    schedLog,           \* history: delays armed since the last successful open
    recovered,          \* history: the last successful open followed a failed attempt
    autoAttempts,       \* history: sockets the timers created since the last successful
                        \* open, counted up to quota.auto
    received,           \* history: raw messages the transport delivered, in order
    dispatched,         \* history: payloads handed to handlers.onMessage, in order
    obs,                \* what the last handler did: its events in program order
    pending,            \* bag of the Request Client calls awaiting their response
    fetched,            \* the last fetch() call: who made it, the headers it was given
    settled,            \* the last Request Client promise that settled, and how
    rag                 \* the last call of getRagSuggestions: its form and what it returned

apiVars == <<pending, fetched, settled, rag>>

vars == <<token, ws, orphans, reconnectAttempts, timers, quota,
          disconnected, schedLog, recovered, autoAttempts, received, dispatched,
          obs, pending, fetched, settled, rag>>

----------------------------------------------------------------------------
(* Bounds of the model *)

\* WebSocket objects not yet closed plus armed timers, at any one time
MaxSockets == 2
\* messages the transport delivers over a run of SpecMsg
MaxMessages == 3
\* Request Client calls awaiting their response at any one time
MaxCalls == 2
\* characters in the longest currentConfiguration a form submits
MaxConfigLen == 11

(* Program constants *)

maxReconnectAttempts == 5
reconnectDelay == 1000

NULL == "null"
Tokens == {"tokA"}

----------------------------------------------------------------------------
(* JSON text, as sequences of characters, for the values the model uses:   *)
(* non-negative integers and flat arrays of them.                          *)

Digits == <<"0", "1", "2", "3", "4", "5", "6", "7", "8", "9">>

IsDigit(c) == \E i \in 1 .. 10 : Digits[i] = c

DigitVal(c) == (CHOOSE i \in 1 .. 10 : Digits[i] = c) - 1

NoValue == [type |-> "none", num |-> 0, items |-> <<>>]
NumberValue(n) == [type |-> "number", num |-> n, items |-> <<>>]
ArrayValue(xs) == [type |-> "array", num |-> 0, items |-> xs]
\* an object that refers to itself: JSON.stringify throws a TypeError on it
CircularValue == [type |-> "circular", num |-> 0, items |-> <<>>]

\* a JSON number without sign, fraction or exponent: no leading zero
IsNumberText(s) ==
    /\ Len(s) >= 1
    /\ \A i \in 1 .. Len(s) : IsDigit(s[i])
    /\ (Len(s) > 1 => s[1] # "0")

RECURSIVE NumberOf(_)
NumberOf(s) ==
    IF s = <<>> THEN 0
    ELSE NumberOf(SubSeq(s, 1, Len(s) - 1)) * 10 + DigitVal(s[Len(s)])

\* the position of the first comma of s, or 0
FirstComma(s) ==
    IF \E i \in 1 .. Len(s) : s[i] = ","
    THEN CHOOSE i \in 1 .. Len(s) : s[i] = "," /\ \A j \in 1 .. (i - 1) : s[j] # ","
    ELSE 0

\* the comma-separated pieces of a non-empty element list
RECURSIVE SplitComma(_)
SplitComma(s) ==
    IF FirstComma(s) = 0 THEN <<s>>
    ELSE <<SubSeq(s, 1, FirstComma(s) - 1)>>
             \o SplitComma(SubSeq(s, FirstComma(s) + 1, Len(s)))

IsArrayText(s) ==
    /\ Len(s) >= 2
    /\ s[1] = "["
    /\ s[Len(s)] = "]"
    /\ \/ Len(s) = 2
       \/ LET ps == SplitComma(SubSeq(s, 2, Len(s) - 1))
          IN  \A i \in 1 .. Len(ps) : IsNumberText(ps[i])

ArrayOf(s) ==
    IF Len(s) = 2 THEN <<>>
    ELSE LET ps == SplitComma(SubSeq(s, 2, Len(s) - 1))
         IN  [i \in 1 .. Len(ps) |-> NumberOf(ps[i])]

\* JSON.parse(text): ok is FALSE where JSON.parse throws a SyntaxError
JSONParse(s) ==
    IF IsNumberText(s) THEN [ok |-> TRUE, value |-> NumberValue(NumberOf(s))]
    ELSE IF IsArrayText(s) THEN [ok |-> TRUE, value |-> ArrayValue(ArrayOf(s))]
    ELSE [ok |-> FALSE, value |-> NoValue]

RECURSIVE NumberText(_)
NumberText(n) ==
    IF n < 10 THEN <<Digits[n + 1]>>
    ELSE NumberText(n \div 10) \o <<Digits[(n % 10) + 1]>>

RECURSIVE JoinComma(_)
JoinComma(xs) ==
    IF xs = <<>> THEN <<>>
    ELSE IF Len(xs) = 1 THEN NumberText(xs[1])
    ELSE NumberText(xs[1]) \o <<",">> \o JoinComma(Tail(xs))

\* JSON.stringify(value): ok is FALSE where JSON.stringify throws a TypeError
JSONStringify(v) ==
    IF v.type = "number" THEN [ok |-> TRUE, text |-> NumberText(v.num)]
    ELSE IF v.type = "array"
    THEN [ok |-> TRUE, text |-> <<"[">> \o JoinComma(v.items) \o <<"]">>]
    ELSE [ok |-> FALSE, text |-> <<>>]

\* the frames the transport delivers: a number, an array, a truncated array
RawMessages == { <<"4", "2">>, <<"[", "7", "]">>, <<"[", "7">> }

\* the values the consumer passes to send()
SendData == { NumberValue(42), ArrayValue(<<7, 10>>), CircularValue }

----------------------------------------------------------------------------
(* The record of what one handler did *)

Ev(e) == [ev |-> e, val |-> NoValue, text |-> <<>>, num |-> 0]
EvVal(e, v) == [ev |-> e, val |-> v, text |-> <<>>, num |-> 0]
EvText(e, t) == [ev |-> e, val |-> NoValue, text |-> t, num |-> 0]
EvNum(e, n) == [ev |-> e, val |-> NoValue, text |-> <<>>, num |-> n]

NoTimer == [delay |-> 0, stale |-> FALSE, byClient |-> FALSE]

\* op: the handler; caller: who ran it; thrown: it threw to its caller;
\* ret: the value it returned; trace: its events in program order;
\* fired: the timer that ran it; attemptsBefore: reconnectAttempts as it began
Outcome(op, caller, thrown, trace, fired) ==
    [op |-> op, caller |-> caller, thrown |-> thrown, ret |-> "undefined",
     trace |-> trace, fired |-> fired, attemptsBefore |-> reconnectAttempts]

DidIn(o, e) == \E i \in 1 .. Len(o.trace) : o.trace[i].ev = e

Did(e) == DidIn(obs, e)

\* the payloads a trace hands to handlers.onMessage, in order
Payloads(trace) ==
    LET idx == {i \in 1 .. Len(trace) : trace[i].ev = "onMessage"}
        RECURSIVE Pick(_)
        Pick(i) == IF i > Len(trace) THEN <<>>
                   ELSE (IF i \in idx THEN <<trace[i].val>> ELSE <<>>) \o Pick(i + 1)
    IN  Pick(1)

One(x) == SetToBag({x})

\* readyStates of an object that can still fire an event
Unclosed == {"CONNECTING", "OPEN", "CLOSING"}

\* the objects that can still fire an event: the one this.ws references and
\* the orphans.  st: readyState; byClient (history): disconnect() called
\* close() on it while it was connecting or open
Referenced == [ref |-> TRUE, st |-> ws, byClient |-> FALSE]
Orphan(k) == [ref |-> FALSE, st |-> k.st, byClient |-> k.byClient]
Objects ==
    (IF ws \in Unclosed THEN {Referenced} ELSE {})
        \cup {Orphan(k) : k \in BagToSet(orphans)}

\* objects connecting or open, each with the client's four handlers attached
LiveCount ==
    (IF ws \in {"CONNECTING", "OPEN"} THEN 1 ELSE 0)
        + CopiesIn([st |-> "CONNECTING", byClient |-> FALSE], orphans)
        + CopiesIn([st |-> "OPEN", byClient |-> FALSE], orphans)

Load ==
    (IF ws \in Unclosed THEN 1 ELSE 0)
        + BagCardinality(orphans) + BagCardinality(timers)

----------------------------------------------------------------------------
(* class WebSocketClient *)

\* connect() without the credential check
HasTokenUnchecked(t) == TRUE

\* if (!token): null and the empty string are both falsy
HasToken(t) == t # NULL /\ t # ""

\* a fixed delay in place of the linear backoff
BackoffFlat(attempt) == reconnectDelay

\* this.reconnectDelay * this.reconnectAttempts
Backoff(attempt) == reconnectDelay * attempt

\* ws.onopen without the reset
AttemptsKept(n) == n

\* ws.onopen: this.reconnectAttempts = 0
AttemptsAfterOpen(n) == 0

\* send() without the readyState test
CanSendAnyHandle(w) == w # "null"

\* if (this.ws && this.ws.readyState === WebSocket.OPEN)
CanSend(w) == w # "null" /\ w = "OPEN"

\* this.ws = new WebSocket(wsUrl): the object this.ws referenced stays as it is
Abandoned(w) ==
    IF w \in Unclosed THEN One([st |-> w, byClient |-> FALSE]) ELSE EmptyBag

\* a connect() that tests the credential for the consumer's calls only
connectTimerUnchecked(caller, fired, ctorThrows) ==
    /\ IF ~HasToken(token) /\ caller # "timer"
       THEN /\ obs' = Outcome("connect", caller, FALSE,
                  <<Ev("console.error:No authentication token found")>>, fired)
            /\ UNCHANGED <<ws, orphans>>
       ELSE IF ctorThrows
       THEN /\ obs' = Outcome("connect", caller, FALSE,
                  <<Ev("new WebSocket:throws"),
                    Ev("console.error:Failed to create WebSocket connection")>>, fired)
            /\ UNCHANGED <<ws, orphans>>
       ELSE /\ ws' = "CONNECTING"
            /\ orphans' = orphans (+) Abandoned(ws)
            /\ obs' = Outcome("connect", caller, FALSE, <<Ev("new WebSocket")>>, fired)
    /\ UNCHANGED <<token, reconnectAttempts, quota, schedLog, recovered,
                   received, dispatched>>
    /\ UNCHANGED apiVars

\* connect(): the constructor throws a SyntaxError on a URL it cannot use
connect(caller, fired, ctorThrows) ==
    /\ IF ~HasToken(token)
       THEN /\ obs' = Outcome("connect", caller, FALSE,
                  <<Ev("console.error:No authentication token found")>>, fired)
            /\ UNCHANGED <<ws, orphans>>
       ELSE IF ctorThrows
       THEN /\ obs' = Outcome("connect", caller, FALSE,
                  <<Ev("new WebSocket:throws"),
                    Ev("console.error:Failed to create WebSocket connection")>>, fired)
            /\ UNCHANGED <<ws, orphans>>
       ELSE /\ ws' = "CONNECTING"
            /\ orphans' = orphans (+) Abandoned(ws)
            /\ obs' = Outcome("connect", caller, FALSE, <<Ev("new WebSocket")>>, fired)
    /\ UNCHANGED <<token, reconnectAttempts, quota, schedLog, recovered,
                   received, dispatched>>
    /\ UNCHANGED apiVars

\* the consumer calls connect()
ConsumerConnect ==
    /\ Load < quota.sockets
    /\ \E ctorThrows \in BOOLEAN : connect("consumer", NoTimer, ctorThrows)
    /\ disconnected' = FALSE
    /\ UNCHANGED autoAttempts
    /\ timers' = BagOfAll(LAMBDA t : [t EXCEPT !.stale = FALSE], timers)

\* the count of the sockets the timers created, one more when created
AttemptsCounted(n, created) ==
    IF created /\ n < quota.auto THEN n + 1 ELSE n

\* the callback armed by attemptReconnect runs: this.connect()
TimerFire(t) ==
    /\ BagIn(t, timers)
    /\ \E ctorThrows \in BOOLEAN : connect("timer", t, ctorThrows)
    /\ timers' = timers (-) One(t)
    /\ autoAttempts' = AttemptsCounted(autoAttempts, DidIn(obs', "new WebSocket"))
    /\ UNCHANGED disconnected

\* the readyState of object o becomes st
SetReadyState(o, st) ==
    IF o.ref
    THEN ws' = st /\ orphans' = orphans
    ELSE /\ ws' = ws
         /\ orphans' = (orphans (-) One([st |-> o.st, byClient |-> o.byClient]))
                          (+) (IF st = "CLOSED" THEN EmptyBag
                               ELSE One([st |-> st, byClient |-> o.byClient]))

\* ws.onopen
onopen(o) ==
    /\ o.st = "CONNECTING"
    /\ SetReadyState(o, "OPEN")
    /\ reconnectAttempts' = AttemptsAfterOpen(reconnectAttempts)
    /\ schedLog' = <<>>
    /\ recovered' = (reconnectAttempts > 0)
    /\ obs' = Outcome("onopen", "socket", FALSE,
                      <<Ev("console.log:WebSocket connected"), Ev("onOpen")>>, NoTimer)
    /\ UNCHANGED <<token, timers, quota, disconnected, received, dispatched>>
    /\ autoAttempts' = 0
    /\ UNCHANGED apiVars

\* ws.onmessage that hands the callback a value when the parse failed
MessageTraceNoCatch(raw) ==
    IF JSONParse(raw).ok
    THEN <<EvVal("onMessage", JSONParse(raw).value)>>
    ELSE <<EvVal("onMessage", NoValue)>>

\* ws.onmessage that keeps a failed message and hands it over with the next one
MessageTraceRetry(raw) ==
    IF JSONParse(raw).ok
    THEN IF received # <<>> /\ ~JSONParse(received[Len(received)]).ok
         THEN <<EvVal("onMessage", JSONParse(raw).value),
                EvVal("onMessage", JSONParse(raw).value)>>
         ELSE <<EvVal("onMessage", JSONParse(raw).value)>>
    ELSE <<Ev("console.error:Failed to parse WebSocket message")>>

\* the body of ws.onmessage: try { JSON.parse; handlers.onMessage } catch { console.error }
MessageTrace(raw) ==
    IF JSONParse(raw).ok
    THEN <<EvVal("onMessage", JSONParse(raw).value)>>
    ELSE <<Ev("console.error:Failed to parse WebSocket message")>>

\* the peer starts the closing handshake: the browser sets readyState to
\* CLOSING and runs no handler of the client
closing(o) ==
    /\ o.st = "OPEN"
    /\ SetReadyState(o, "CLOSING")
    /\ obs' = Outcome("closing", "socket", FALSE, <<>>, NoTimer)
    /\ UNCHANGED <<token, reconnectAttempts, timers, quota, disconnected, schedLog,
                   recovered, received, dispatched>>
    /\ UNCHANGED <<autoAttempts, apiVars>>

\* ws.onmessage: a message event is delivered to an open socket only
onmessage(o, raw) ==
    /\ o.st = "OPEN"
    /\ Len(received) < quota.messages
    /\ received' = Append(received, raw)
    /\ dispatched' = dispatched \o Payloads(MessageTrace(raw))
    /\ obs' = Outcome("onmessage", "socket", FALSE, MessageTrace(raw), NoTimer)
    /\ UNCHANGED <<token, ws, orphans, reconnectAttempts, timers, quota,
                   disconnected, schedLog, recovered>>
    /\ UNCHANGED <<autoAttempts, apiVars>>

\* ws.onerror: the browser fires the close event separately
onerror(o) ==
    /\ obs' = Outcome("onerror", "socket", FALSE,
                      <<Ev("console.error:WebSocket error"), Ev("onError")>>, NoTimer)
    /\ UNCHANGED <<token, ws, orphans, reconnectAttempts, timers, quota,
                   disconnected, schedLog, recovered, received, dispatched>>
    /\ UNCHANGED <<autoAttempts, apiVars>>

\* ws.onclose that evaluates the retry policy before it calls handlers.onClose
attemptReconnectFirst(o, trace) ==
    IF reconnectAttempts < maxReconnectAttempts
    THEN /\ reconnectAttempts' = reconnectAttempts + 1
         /\ timers' = timers (+) One([delay |-> Backoff(reconnectAttempts + 1),
                                      stale |-> FALSE,
                                      byClient |-> (o.byClient /\ disconnected)])
         /\ schedLog' = Append(schedLog, Backoff(reconnectAttempts + 1))
         /\ obs' = Outcome("onclose", "socket", FALSE,
                       <<Ev("console.log:Attempting to reconnect"),
                         EvNum("setTimeout", Backoff(reconnectAttempts + 1))>> \o trace,
                       NoTimer)
    ELSE /\ obs' = Outcome("onclose", "socket", FALSE, trace, NoTimer)
         /\ UNCHANGED <<reconnectAttempts, timers, schedLog>>

\* attemptReconnect(), called by ws.onclose of object o
attemptReconnect(o, trace) ==
    IF reconnectAttempts < maxReconnectAttempts
    THEN /\ reconnectAttempts' = reconnectAttempts + 1
         /\ timers' = timers (+) One([delay |-> Backoff(reconnectAttempts + 1),
                                      stale |-> FALSE,
                                      byClient |-> (o.byClient /\ disconnected)])
         /\ schedLog' = Append(schedLog, Backoff(reconnectAttempts + 1))
         /\ obs' = Outcome("onclose", "socket", FALSE,
                       trace \o <<Ev("console.log:Attempting to reconnect"),
                                  EvNum("setTimeout", Backoff(reconnectAttempts + 1))>>,
                       NoTimer)
    ELSE /\ obs' = Outcome("onclose", "socket", FALSE, trace, NoTimer)
         /\ UNCHANGED <<reconnectAttempts, timers, schedLog>>

\* ws.onclose: fired once, when the object becomes CLOSED
onclose(o) ==
    /\ SetReadyState(o, "CLOSED")
    /\ attemptReconnect(o, <<Ev("console.log:WebSocket closed"), Ev("onClose")>>)
    /\ UNCHANGED <<token, quota, disconnected, recovered, received, dispatched>>
    /\ UNCHANGED <<autoAttempts, apiVars>>

\* send(data)
send(data) ==
    /\ IF CanSend(ws)
       THEN IF JSONStringify(data).ok
            THEN obs' = Outcome("send", "consumer", FALSE,
                            <<EvText("ws.send", JSONStringify(data).text)>>, NoTimer)
            ELSE obs' = Outcome("send", "consumer", TRUE, <<>>, NoTimer)
       ELSE obs' = Outcome("send", "consumer", FALSE,
                       <<Ev("console.error:WebSocket is not connected")>>, NoTimer)
    /\ UNCHANGED <<token, ws, orphans, reconnectAttempts, timers, quota,
                   disconnected, schedLog, recovered, received, dispatched>>
    /\ UNCHANGED <<autoAttempts, apiVars>>

\* disconnect(): close() starts the closing handshake of a connecting or open
\* object and does nothing to a closing or closed one
disconnect ==
    /\ IF ws # "null"
       THEN /\ orphans' = orphans
                  (+) (IF ws \in {"CONNECTING", "OPEN"}
                       THEN One([st |-> "CLOSING", byClient |-> TRUE])
                       ELSE IF ws = "CLOSING"
                       THEN One([st |-> "CLOSING", byClient |-> FALSE])
                       ELSE EmptyBag)
            /\ ws' = "null"
            /\ obs' = Outcome("disconnect", "consumer", FALSE, <<Ev("ws.close")>>, NoTimer)
       ELSE /\ UNCHANGED <<ws, orphans>>
            /\ obs' = Outcome("disconnect", "consumer", FALSE, <<>>, NoTimer)
    /\ disconnected' = TRUE
    /\ timers' = BagOfAll(LAMBDA t : [t EXCEPT !.stale = TRUE], timers)
    /\ UNCHANGED <<token, reconnectAttempts, quota, schedLog, recovered,
                   received, dispatched>>
    /\ UNCHANGED <<autoAttempts, apiVars>>

----------------------------------------------------------------------------
(* The credential store as the push-channel client sees it: written by    *)
(* authApi.login and authApi.logout at any moment                          *)

\* localStorage.setItem('access_token', data.access_token)
setItem(t) ==
    /\ token # t
    /\ token' = t
    /\ obs' = Outcome("setItem", "consumer", FALSE, <<>>, NoTimer)
    /\ UNCHANGED <<ws, orphans, reconnectAttempts, timers, quota,
                   disconnected, schedLog, recovered, received, dispatched>>
    /\ UNCHANGED <<autoAttempts, apiVars>>

\* localStorage.removeItem('access_token')
removeItem ==
    /\ token # NULL
    /\ token' = NULL
    /\ obs' = Outcome("removeItem", "consumer", FALSE, <<>>, NoTimer)
    /\ UNCHANGED <<ws, orphans, reconnectAttempts, timers, quota,
                   disconnected, schedLog, recovered, received, dispatched>>
    /\ UNCHANGED <<autoAttempts, apiVars>>

----------------------------------------------------------------------------
(* The Request Client: headers *)

\* a JavaScript object as its own enumerable entries <<key, value>>, in order
HasKey(obj, k) == \E i \in 1 .. Len(obj) : obj[i][1] = k

\* obj[k] = v: an existing key keeps its place, a new one goes last
Put(obj, k, v) ==
    IF HasKey(obj, k)
    THEN [i \in 1 .. Len(obj) |-> IF obj[i][1] = k THEN <<k, v>> ELSE obj[i]]
    ELSE Append(obj, <<k, v>>)

\* { ...obj, ...src }
RECURSIVE Spread(_, _)
Spread(obj, src) ==
    IF src = <<>> THEN obj
    ELSE Spread(Put(obj, Head(src)[1], Head(src)[2]), Tail(src))

\* what options.headers (a HeadersInit) can be: left out, a plain object, or
\* a Headers instance, which has no own enumerable entries to spread
NoInit == [kind |-> "undefined", entries |-> <<>>]
CallerInits ==
    { NoInit,
      [kind |-> "record", entries |-> << <<"Authorization", "Basic abc">> >>],
      [kind |-> "record", entries |-> << <<"content-type", "text/plain">> >>],
      [kind |-> "record",
       entries |-> << <<"Content-Type", "text/plain">>, <<"X-Trace", "1">> >>],
      [kind |-> "Headers", entries |-> << <<"Authorization", "Basic abc">> >>] }

\* ...options.headers
OwnEntries(init) == IF init.kind = "record" THEN init.entries ELSE <<>>

\* header names are case-insensitive: the name fetch() files a key under
Lower(k) ==
    CASE k = "Content-Type" -> "content-type"
      [] k = "Authorization" -> "authorization"
      [] k = "X-Trace" -> "x-trace"
      [] OTHER -> k

\* the values the request carries under a header name, in order
RECURSIVE Wire(_, _)
Wire(obj, name) ==
    IF obj = <<>> THEN <<>>
    ELSE (IF Lower(Head(obj)[1]) = name THEN <<Head(obj)[2]>> ELSE <<>>)
             \o Wire(Tail(obj), name)

\* `${x}` of the result of localStorage.getItem
Str(t) == IF t = NULL THEN "null" ELSE t

\* `Bearer ${token}`
Bearer(t) == "Bearer " \o Str(t)

defaultHeaders == << <<"Content-Type", "application/json">> >>

\* an Authorization header that is never attached
AuthHeaderNever(t) == <<>>

\* ...(token ? { Authorization: `Bearer ${token}` } : {})
AuthHeader(t) ==
    IF HasToken(t) THEN << <<"Authorization", Bearer(t)>> >> ELSE <<>>

\* the headers of benchmarkApi.export: built without looking at the token
ExportHeaders(t) == << <<"Authorization", Bearer(t)>> >>

\* the headers object each operation hands to fetch()
HeadersOf(op, t, init) ==
    CASE op = "apiRequest" -> Spread(Spread(defaultHeaders, AuthHeader(t)), OwnEntries(init))
      [] op = "logout" -> Spread(Spread(defaultHeaders, AuthHeader(t)), <<>>)
      [] op = "uploadFile" -> Spread(<<>>, AuthHeader(t))
      [] op = "export" -> ExportHeaders(t)
      [] op = "login" -> <<>>

----------------------------------------------------------------------------
(* The Request Client: responses *)

ABSENT == "<absent>"

\* a response body: text that is no JSON, the JSON null, or a JSON object
\* with or without the detail and access_token fields
BodyBad == [kind |-> "unparsable", detail |-> ABSENT, access_token |-> ABSENT]
BodyNull == [kind |-> "null", detail |-> ABSENT, access_token |-> ABSENT]
BodyObject(d, a) == [kind |-> "object", detail |-> d, access_token |-> a]

LoginTokens == {"tokA", "tokB"}

Bodies ==
    {BodyBad, BodyNull, BodyObject(ABSENT, ABSENT), BodyObject("Not authenticated", ABSENT)}
        \cup {BodyObject(ABSENT, a) : a \in LoginTokens}

NetworkFailure == [kind |-> "network", ok |-> FALSE, status |-> 0, body |-> BodyBad]
Http(status, body) ==
    [kind |-> "http", ok |-> (status = 200), status |-> status, body |-> body]

Responses == {NetworkFailure} \cup {Http(st, b) : st \in {200, 401, 500}, b \in Bodies}

StatusText(n) ==
    CASE n = 200 -> "200" [] n = 401 -> "401" [] n = 500 -> "500" [] OTHER -> "0"

\* String(v) as localStorage.setItem applies it to a field of the body
Stored(v) == IF v = ABSENT THEN "undefined" ELSE v

Fulfilled(op) == [op |-> op, state |-> "fulfilled", error |-> "", kind |-> "none"]
Rejected(op, kind, msg) == [op |-> op, state |-> "rejected", error |-> msg, kind |-> kind]

\* an apiRequest that names the status when the failure body is unparsable
apiRequestResultStatusFallback(op, resp) ==
    IF resp.kind = "network" THEN Rejected(op, "TypeError", "Failed to fetch")
    ELSE IF ~resp.ok
    THEN IF resp.body.kind = "null"
         THEN Rejected(op, "TypeError", "Cannot read properties of null")
         ELSE IF resp.body.detail # ABSENT /\ resp.body.detail # ""
         THEN Rejected(op, "Error", resp.body.detail)
         ELSE Rejected(op, "Error", "API Error: " \o StatusText(resp.status))
    ELSE IF resp.body.kind = "unparsable"
    THEN Rejected(op, "SyntaxError", "Unexpected token")
    ELSE Fulfilled(op)

\* an apiRequest that reports a failed fetch() as an application error
apiRequestResultAbsorbsNetwork(op, resp) ==
    IF resp.kind = "network" THEN Rejected(op, "Error", "Unknown error")
    ELSE IF ~resp.ok
    THEN IF resp.body.kind = "unparsable" THEN Rejected(op, "Error", "Unknown error")
         ELSE IF resp.body.kind = "null"
         THEN Rejected(op, "TypeError", "Cannot read properties of null")
         ELSE IF resp.body.detail # ABSENT /\ resp.body.detail # ""
         THEN Rejected(op, "Error", resp.body.detail)
         ELSE Rejected(op, "Error", "API Error: " \o StatusText(resp.status))
    ELSE IF resp.body.kind = "unparsable"
    THEN Rejected(op, "SyntaxError", "Unexpected token")
    ELSE Fulfilled(op)

\* apiRequest once fetch() has settled (lines 32-43)
apiRequestResult(op, resp) ==
    IF resp.kind = "network" THEN Rejected(op, "TypeError", "Failed to fetch")
    ELSE IF ~resp.ok
    THEN IF resp.body.kind = "unparsable" THEN Rejected(op, "Error", "Unknown error")
         ELSE IF resp.body.kind = "null"
         THEN Rejected(op, "TypeError", "Cannot read properties of null")
         ELSE IF resp.body.detail # ABSENT /\ resp.body.detail # ""
         THEN Rejected(op, "Error", resp.body.detail)
         ELSE Rejected(op, "Error", "API Error: " \o StatusText(resp.status))
    ELSE IF resp.body.kind = "unparsable"
    THEN Rejected(op, "SyntaxError", "Unexpected token")
    ELSE Fulfilled(op)

\* authApi.login once fetch() has settled (lines 60-66)
loginResult(resp) ==
    IF resp.kind = "network" THEN Rejected("login", "TypeError", "Failed to fetch")
    ELSE IF ~resp.ok THEN Rejected("login", "Error", "Login failed")
    ELSE IF resp.body.kind = "unparsable"
    THEN Rejected("login", "SyntaxError", "Unexpected token")
    ELSE IF resp.body.kind = "null"
    THEN Rejected("login", "TypeError", "Cannot read properties of null")
    ELSE Fulfilled("login")

\* uploadFile once fetch() has settled (lines 476-481)
uploadFileResult(resp) ==
    IF resp.kind = "network" THEN Rejected("uploadFile", "TypeError", "Failed to fetch")
    ELSE IF ~resp.ok
    THEN IF resp.body.kind = "unparsable" THEN Rejected("uploadFile", "Error", "Upload failed")
         ELSE IF resp.body.kind = "null"
         THEN Rejected("uploadFile", "TypeError", "Cannot read properties of null")
         ELSE IF resp.body.detail # ABSENT
         THEN Rejected("uploadFile", "Error", resp.body.detail)
         ELSE Rejected("uploadFile", "Error", "")
    ELSE IF resp.body.kind = "unparsable"
    THEN Rejected("uploadFile", "SyntaxError", "Unexpected token")
    ELSE Fulfilled("uploadFile")

\* benchmarkApi.export once fetch() has settled (lines 288-292)
exportResult(resp) ==
    IF resp.kind = "network" THEN Rejected("export", "TypeError", "Failed to fetch")
    ELSE IF ~resp.ok THEN Rejected("export", "Error", "Export failed")
    ELSE Fulfilled("export")

\* a logout that swallows the failure of its notification
ResultOfLogoutSwallows(op, resp) ==
    CASE op = "apiRequest" -> apiRequestResult(op, resp)
      [] op = "logout" -> Fulfilled(op)
      [] op = "login" -> loginResult(resp)
      [] op = "uploadFile" -> uploadFileResult(resp)
      [] op = "export" -> exportResult(resp)

\* how the promise of each operation settles
ResultOf(op, resp) ==
    CASE op = "apiRequest" -> apiRequestResult(op, resp)
      [] op = "logout" -> apiRequestResult(op, resp)
      [] op = "login" -> loginResult(resp)
      [] op = "uploadFile" -> uploadFileResult(resp)
      [] op = "export" -> exportResult(resp)

\* a login that stores whatever token the body carries, whatever the status
StoredAfterAnyStatus(op, resp, t) ==
    IF op = "login" /\ resp.kind = "http" /\ resp.body.kind = "object"
    THEN Stored(resp.body.access_token)
    ELSE IF op = "logout" THEN NULL
    ELSE t

\* a logout that clears the credential only when the backend was notified
StoredAfterNotified(op, resp, t) ==
    IF op = "login" /\ loginResult(resp).state = "fulfilled"
    THEN Stored(resp.body.access_token)
    ELSE IF op = "logout" /\ apiRequestResult(op, resp).state = "fulfilled" THEN NULL
    ELSE t

\* a login that returns before it has stored the token
StoredAfterLoginForgets(op, resp, t) ==
    IF op = "logout" THEN NULL ELSE t

\* a request that drops the credential when the backend answers 401
StoredAfterDrop401(op, resp, t) ==
    IF op = "login" /\ loginResult(resp).state = "fulfilled"
    THEN Stored(resp.body.access_token)
    ELSE IF op = "logout" \/ (resp.kind = "http" /\ resp.status = 401) THEN NULL
    ELSE t

\* the credential once the operation has settled: login stores the token of
\* a success body (line 65), logout removes it in its finally (line 74),
\* nothing else writes it
StoredAfter(op, resp, t) ==
    IF op = "login" /\ loginResult(resp).state = "fulfilled"
    THEN Stored(resp.body.access_token)
    ELSE IF op = "logout" THEN NULL
    ELSE t

----------------------------------------------------------------------------
(* The Request Client: operations *)

NoFetch == [op |-> "none", init |-> NoInit, tokenAt |-> NULL, headers |-> <<>>]

NoSettle ==
    [op |-> "none", state |-> "none", error |-> "", kind |-> "none",
     resp |-> NetworkFailure, tokenBefore |-> NULL, trace |-> <<>>]

\* what the rest of an operation does to the credential store, in program
\* order, ending with the way its promise settles: login writes before it
\* returns (lines 65-66), logout removes in its finally block (lines 73-75)
SettleTrace(op, resp) ==
    (IF op = "login" /\ loginResult(resp).state = "fulfilled"
     THEN <<"setItem">> ELSE <<>>)
        \o (IF op = "logout" THEN <<"removeItem">> ELSE <<>>)
        \o <<ResultOf(op, resp).state>>

Ops == {"apiRequest", "login", "logout", "uploadFile", "export"}

\* the synchronous part of an operation: it reads the credential, builds the
\* headers and calls fetch()
Invoke(op, init) ==
    /\ BagCardinality(pending) < quota.calls
    /\ fetched' = [op |-> op, init |-> init, tokenAt |-> token,
                   headers |-> HeadersOf(op, token, init)]
    /\ pending' = pending (+) One(op)
    /\ obs' = Outcome(op, "consumer", FALSE, <<Ev("fetch")>>, NoTimer)
    /\ UNCHANGED <<token, ws, orphans, reconnectAttempts, timers, quota, disconnected,
                   schedLog, recovered, autoAttempts, received, dispatched, settled, rag>>

\* a client that calls fetch() again when the network failed
OutstandingRetry(calls, op, resp) ==
    IF resp.kind = "network" THEN calls ELSE calls (-) One(op)

\* the calls in flight once the rest of an operation has run: no path after
\* the await of fetch() calls fetch() again
Outstanding(calls, op, resp) == calls (-) One(op)

\* the rest of an operation, run when fetch() has settled with resp
Settle(op, resp) ==
    /\ BagIn(op, pending)
    /\ pending' = Outstanding(pending, op, resp)
    /\ token' = StoredAfter(op, resp, token)
    /\ settled' = ResultOf(op, resp) @@
                      [resp |-> resp, tokenBefore |-> token,
                       trace |-> SettleTrace(op, resp)]
    /\ obs' = Outcome(op, "consumer", FALSE, <<Ev("settle")>>, NoTimer)
    /\ UNCHANGED <<ws, orphans, reconnectAttempts, timers, quota, disconnected,
                   schedLog, recovered, autoAttempts, received, dispatched, fetched, rag>>

----------------------------------------------------------------------------
(* getRagSuggestions, the form action of the configuration assistant *)

\* an entry of the submitted FormData: left out, a File, or a string
NoEntry == [kind |-> "missing", text |-> <<>>]
FileEntry == [kind |-> "file", text |-> <<>>]
Text(n) == [kind |-> "string", text |-> [i \in 1 .. n |-> "x"]]

\* Object.fromEntries(data)
Forms ==
    [currentConfiguration : {NoEntry, FileEntry} \cup {Text(n) : n \in 0 .. MaxConfigLen},
     performanceMetrics : {NoEntry, FileEntry, Text(0), Text(3)},
     costConstraints : {NoEntry, FileEntry, Text(3)}]

minConfiguration == 10

\* the issue z.string() reports for a value that is no string
TypeIssue(e) ==
    IF e.kind = "missing" THEN <<"Required">>
    ELSE IF e.kind = "file" THEN <<"Expected string, received object">>
    ELSE <<>>

\* z.string().min(10, ...) without the length test
RequiredStringAnyLength(e) == TypeIssue(e)

\* z.string().min(10, "Current configuration must be at least 10 characters.")
RequiredString(e) ==
    IF e.kind # "string" THEN TypeIssue(e)
    ELSE IF Len(e.text) < minConfiguration
    THEN <<"Current configuration must be at least 10 characters.">>
    ELSE <<>>

\* z.string().optional()
OptionalString(e) == IF e.kind = "missing" THEN <<>> ELSE TypeIssue(e)

\* parsed.error.issues.map((issue) => issue.message), in the order of the schema
Issues(form) ==
    RequiredString(form.currentConfiguration)
        \o OptionalString(form.performanceMetrics)
        \o OptionalString(form.costConstraints)

\* the FormState fields a return statement leaves out
NoForm == [currentConfiguration |-> NoEntry, performanceMetrics |-> NoEntry,
           costConstraints |-> NoEntry]
NoData == [input |-> NoForm]

\* a FormState: own lists the optional keys the object has
FormState(message, own, issues, fields, data) ==
    [message |-> message, own |-> own, issues |-> issues, fields |-> fields,
     data |-> data]

initialState == FormState("", {}, <<>>, NoForm, NoData)

NoRag ==
    [stage |-> "idle", form |-> NoForm, calls |-> 0, outcome |-> "none",
     state |-> initialState]

\* getRagSuggestions(prevState, data) up to its first await: it returns at
\* once on a form that does not parse, and calls the service otherwise
getRagSuggestions(form) ==
    /\ quota.forms > 0
    /\ rag.stage # "called"
    /\ IF Issues(form) # <<>>
       THEN rag' = [stage |-> "returned", form |-> form, calls |-> 0, outcome |-> "none",
                    state |-> FormState("Invalid form data", {"issues", "fields"},
                                        Issues(form), form, NoData)]
       ELSE rag' = [stage |-> "called", form |-> form, calls |-> 1, outcome |-> "none",
                    state |-> rag.state]
    /\ obs' = Outcome("getRagSuggestions", "consumer", FALSE, <<>>, NoTimer)
    /\ UNCHANGED <<token, ws, orphans, reconnectAttempts, timers, quota, disconnected,
                   schedLog, recovered, autoAttempts, received, dispatched,
                   pending, fetched, settled>>

\* the rest of getRagSuggestions: suggestRagConfiguration resolved, or it
\* rejected and the catch block returns
ServiceSettles(outcome) ==
    /\ rag.stage = "called"
    /\ rag' = [rag EXCEPT
                  !.stage = "returned",
                  !.outcome = outcome,
                  !.state = IF outcome = "resolved"
                            THEN FormState("Suggestions generated successfully!", {"data"},
                                           <<>>, NoForm, [input |-> rag.form])
                            ELSE FormState("An error occurred while generating suggestions. Please try again.",
                                           {"fields"}, <<>>, rag.form, NoData)]
    /\ obs' = Outcome("getRagSuggestions", "consumer", FALSE, <<>>, NoTimer)
    /\ UNCHANGED <<token, ws, orphans, reconnectAttempts, timers, quota, disconnected,
                   schedLog, recovered, autoAttempts, received, dispatched,
                   pending, fetched, settled>>

----------------------------------------------------------------------------

\* the state after new WebSocketClient(endpoint, handlers)
Constructed ==
    /\ token \in {NULL} \cup Tokens
    /\ ws = "null"
    /\ orphans = EmptyBag
    /\ reconnectAttempts = 0
    /\ timers = EmptyBag
    /\ disconnected = FALSE
    /\ schedLog = <<>>
    /\ recovered = FALSE
    /\ autoAttempts = 0
    /\ received = <<>>
    /\ dispatched = <<>>
    /\ pending = EmptyBag
    /\ fetched = NoFetch
    /\ settled = NoSettle
    /\ rag = NoRag
    /\ obs = [op |-> "new", caller |-> "consumer", thrown |-> FALSE, ret |-> "undefined",
              trace |-> <<>>, fired |-> NoTimer, attemptsBefore |-> 0]

Next ==
    \/ ConsumerConnect
    \/ \E t \in BagToSet(timers) : TimerFire(t)
    \/ \E o \in Objects : onopen(o)
    \/ \E o \in Objects : \E raw \in RawMessages : onmessage(o, raw)
    \/ \E o \in Objects : closing(o)
    \/ \E o \in Objects : onerror(o)
    \/ \E o \in Objects : onclose(o)
    \/ \E data \in SendData : send(data)
    \/ disconnect
    \/ \E t \in Tokens : setItem(t)
    \/ removeItem

\* the connection lifecycle, with a transport that delivers one message at most
Init == Constructed /\ quota = [sockets |-> MaxSockets, messages |-> 1, calls |-> 0, auto |-> 0, forms |-> 0]

Spec == Init /\ [][Next]_vars

\* one connection at a time, with a transport that delivers MaxMessages messages
InitMsg == Constructed /\ quota = [sockets |-> 1, messages |-> MaxMessages, calls |-> 0, auto |-> 0, forms |-> 0]

SpecMsg == InitMsg /\ [][Next]_vars

\* the connection lifecycle with the timers' sockets counted
InitAuto ==
    /\ Constructed
    /\ quota = [sockets |-> MaxSockets, messages |-> 1, calls |-> 0,
                auto |-> maxReconnectAttempts + 1, forms |-> 0]

SpecAuto == InitAuto /\ [][Next]_vars

\* the Request Client alone
NextApi ==
    \/ \E init \in CallerInits : Invoke("apiRequest", init)
    \/ \E op \in Ops \ {"apiRequest"} : Invoke(op, NoInit)
    \/ \E op \in Ops : \E resp \in Responses : Settle(op, resp)

InitApi ==
    /\ Constructed
    /\ quota = [sockets |-> 0, messages |-> 0, calls |-> MaxCalls, auto |-> 0, forms |-> 0]

SpecApi == InitApi /\ [][NextApi]_vars

\* the form action alone
NextRag ==
    \/ \E form \in Forms : getRagSuggestions(form)
    \/ \E outcome \in {"resolved", "rejected"} : ServiceSettles(outcome)

InitRag ==
    /\ Constructed
    /\ quota = [sockets |-> 0, messages |-> 0, calls |-> 0, auto |-> 0, forms |-> 1]

SpecRag == InitRag /\ [][NextRag]_vars

\* every operation that reads or writes the credential.  The two clients
\* share nothing but the credential, and a step of one reads nothing else the
\* other writes, so a behaviour runs the push-channel client as in Spec
\* (where setItem and removeItem stand for login and logout) or the Request
\* Client as in SpecApi
NextAll ==
    \/ quota.calls = 0 /\ Next
    \/ quota.calls > 0 /\ NextApi

InitAll == Init \/ InitApi

SpecAll == InitAll /\ [][NextAll]_vars

----------------------------------------------------------------------------
(* Claims *)

\* C1: a reconnect timer armed before disconnect() and still pending when it
\* is called creates no WebSocket when it fires, as long as the consumer has
\* not called connect() again.
C1_DisconnectSuppressesPendingTimer ==
    (obs.op = "connect" /\ obs.caller = "timer" /\ obs.fired.stale /\ disconnected)
        => ~Did("new WebSocket")

\* C2: the close event of an object that disconnect() closed while it was
\* connecting or open arms no reconnect timer, whatever the attempt counter.
C2_ClientCloseArmsNoTimer ==
    \A t \in BagToSet(timers) : ~t.byClient

\* C3: at most one object this client constructed is connecting or open with
\* its handlers attached.
C3_AtMostOneLiveSocket ==
    LiveCount <= 1

\* C4: since the last successful open, the k-th reconnect is armed with delay
\* 1000 * k, at most 5 are armed, and a closure that finds the counter at 5
\* arms nothing.
C4_LinearBackoffFiveAttempts ==
    /\ reconnectAttempts \in 0 .. 5
    /\ schedLog = SubSeq(<<1000, 2000, 3000, 4000, 5000>>, 1, reconnectAttempts)
    /\ obs.op = "onclose" =>
          IF obs.attemptsBefore < 5
          THEN /\ Did("setTimeout")
               /\ \A i \in 1 .. Len(obs.trace) :
                     obs.trace[i].ev = "setTimeout" =>
                         obs.trace[i].num = 1000 * (obs.attemptsBefore + 1)
          ELSE ~Did("setTimeout")

\* the closure that follows the fifth attempt, none of the five having opened
C4_Witness ==
    /\ obs.op = "onclose"
    /\ obs.attemptsBefore = 5
    /\ schedLog = <<1000, 2000, 3000, 4000, 5000>>
    /\ timers = EmptyBag

\* C5: a successful open sets the attempt counter to zero, and the first
\* closure after it arms attempt number 1 with delay reconnectDelay * 1.
C5_OpenResetsCounter ==
    [][ /\ obs'.op = "onopen" => reconnectAttempts' = 0
        /\ (obs'.op = "onclose" /\ schedLog = <<>>) =>
              /\ reconnectAttempts' = 1
              /\ schedLog' = <<reconnectDelay * 1>>
              /\ \E t \in BagToSet(timers') :
                    /\ t.delay = reconnectDelay * 1
                    /\ CopiesIn(t, timers') = CopiesIn(t, timers) + 1 ]_vars

\* failed attempts, then a successful open, then the first closure after it
C5_Witness ==
    /\ recovered
    /\ obs.op = "onclose"
    /\ reconnectAttempts = 1
    /\ schedLog = <<1000>>

\* C6: connect() with no credential stored, called by the consumer or by a
\* timer, constructs no WebSocket and leaves this.ws and the attempt counter
\* as they were.
C6_NoCredentialNoAttempt ==
    [][ (obs'.op = "connect" /\ token = NULL) =>
            /\ ~DidIn(obs', "new WebSocket")
            /\ ~DidIn(obs', "new WebSocket:throws")
            /\ ws' = ws
            /\ orphans' = orphans
            /\ reconnectAttempts' = reconnectAttempts ]_vars

\* a timer runs connect() with the credential gone and the counter at 2
C6_Witness ==
    /\ obs.op = "connect"
    /\ obs.caller = "timer"
    /\ token = NULL
    /\ reconnectAttempts = 2
    /\ ws = "CLOSED"

\* C7: connect() with no credential stored tells its caller so: it calls the
\* registered error handler, or it returns something else than the undefined
\* it returns when an attempt was started.
C7_MissingCredentialReported ==
    (obs.op = "connect" /\ token = NULL) =>
        (Did("onError") \/ obs.ret # "undefined")

\* C8: send() changes no client state, transmits only if this.ws is an open
\* object, and otherwise transmits nothing and does not throw.
C8_SendOnlyWhenOpen ==
    [][ obs'.op = "send" =>
            /\ UNCHANGED <<token, ws, orphans, reconnectAttempts, timers>>
            /\ DidIn(obs', "ws.send") => ws = "OPEN"
            /\ ws # "OPEN" => (~DidIn(obs', "ws.send") /\ ~obs'.thrown) ]_vars

\* send() while the object this.ws references is closing
C8_Witness ==
    /\ obs.op = "send"
    /\ ws = "CLOSING"
    /\ Did("console.error:WebSocket is not connected")
    /\ ~obs.thrown

\* C9: a message that parses goes to the message callback exactly once, with
\* the parsed payload; one that does not parse reaches no callback, throws
\* nothing and leaves this.ws and the attempt counter alone.
C9_ParseThenDispatch ==
    [][ obs'.op = "onmessage" =>
            LET raw == received'[Len(received')]
                calls == {i \in 1 .. Len(obs'.trace) : obs'.trace[i].ev = "onMessage"}
            IN  /\ received' = Append(received, raw)
                /\ ~obs'.thrown
                /\ UNCHANGED <<ws, orphans, reconnectAttempts, timers>>
                /\ IF JSONParse(raw).ok
                   THEN /\ Cardinality(calls) = 1
                        /\ \A i \in calls : obs'.trace[i].val = JSONParse(raw).value
                   ELSE calls = {} ]_vars

\* the truncated array arrives on an open connection and is dropped
C9_Witness ==
    /\ obs.op = "onmessage"
    /\ received # <<>>
    /\ received[Len(received)] = <<"[", "7">>
    /\ ~Did("onMessage")
    /\ Did("console.error:Failed to parse WebSocket message")
    /\ ws = "OPEN"

RECURSIVE ParsedOf(_)
ParsedOf(raws) ==
    IF raws = <<>> THEN <<>>
    ELSE (IF JSONParse(Head(raws)).ok THEN <<JSONParse(Head(raws)).value>> ELSE <<>>)
             \o ParsedOf(Tail(raws))

\* C10: the payloads handed to the message callback are the parsed values of
\* the parsable messages, in the order the transport delivered them.
C10_DispatchInOrder ==
    dispatched = ParsedOf(received)

\* a dropped message between two parsable ones
C10_Witness ==
    /\ received = << <<"[", "7", "]">>, <<"[", "7">>, <<"4", "2">> >>
    /\ dispatched = <<ArrayValue(<<7>>), NumberValue(42)>>

\* the position of event e in the last handler's trace, or 0
PosIn(o, e) ==
    IF DidIn(o, e) THEN CHOOSE i \in 1 .. Len(o.trace) : o.trace[i].ev = e ELSE 0

\* C11 as stated: a close event, and a transport error event of the open
\* connection alike, call their callback and then arm a reconnect when the
\* counter is below the maximum.
C11_ErrorAndCloseRetry ==
    (/\ obs.attemptsBefore < maxReconnectAttempts
     /\ \/ obs.op = "onclose"
        \/ obs.op = "onerror" /\ ws = "OPEN" /\ orphans = EmptyBag)
        => /\ Did("setTimeout")
           /\ (Did("onClose") \/ Did("onError"))
           /\ PosIn(obs, "setTimeout") > PosIn(obs, "onClose")
           /\ PosIn(obs, "setTimeout") > PosIn(obs, "onError")

\* C11 as amended: a close event calls handlers.onClose and then evaluates
\* the retry policy, arming a timer exactly when the counter was below the
\* maximum; a transport error event calls handlers.onError only and leaves
\* the counter and the timers as they were.
C11_CloseRetriesErrorReports ==
    [][ /\ obs'.op = "onclose" =>
              /\ DidIn(obs', "onClose")
              /\ DidIn(obs', "setTimeout") <=> (reconnectAttempts < maxReconnectAttempts)
              /\ DidIn(obs', "setTimeout") =>
                    /\ PosIn(obs', "setTimeout") > PosIn(obs', "onClose")
                    /\ BagCardinality(timers') = BagCardinality(timers) + 1
        /\ obs'.op = "onerror" =>
              /\ DidIn(obs', "onError")
              /\ ~DidIn(obs', "setTimeout")
              /\ UNCHANGED <<ws, orphans, reconnectAttempts, timers>> ]_vars

\* an open connection closes unexpectedly: callback, then a timer is armed
C11_Witness ==
    /\ obs.op = "onclose"
    /\ ~disconnected
    /\ ws = "CLOSED"
    /\ obs.attemptsBefore = 0
    /\ PosIn(obs, "onClose") > 0
    /\ PosIn(obs, "setTimeout") > PosIn(obs, "onClose")

\* C12: after disconnect() the attempt counter is zero.
C12_DisconnectClearsCounter ==
    obs.op = "disconnect" => reconnectAttempts = 0

\* C13: connect(), send() and disconnect() never throw to their caller.
C13_PublicOperationsNeverThrow ==
    obs.op \in {"connect", "send", "disconnect"} => ~obs.thrown

----------------------------------------------------------------------------
(* Claims about the Request Client, checked under SpecApi *)

\* the operations of the Request Client that send the credential
Authorized == {"apiRequest", "uploadFile", "export"}

\* the caller of the last fetch named no Authorization header of its own
NoCallerAuthorization == Wire(fetched.init.entries, "authorization") = <<>>

\* C14: a generic request, an upload or an export issued while no credential
\* is stored carries no Authorization header at all.
C14_NoCredentialNoAuthorization ==
    (/\ fetched.op \in Authorized
     /\ fetched.tokenAt = NULL
     /\ NoCallerAuthorization)
        => Wire(fetched.headers, "authorization") = <<>>

HeaderNames == {"content-type", "authorization", "x-trace"}

\* what apiRequest itself puts under a header name
OwnValue(name, t) ==
    CASE name = "content-type" -> <<"application/json">>
      [] name = "authorization" -> IF t # NULL THEN <<Bearer(t)>> ELSE <<>>
      [] OTHER -> <<>>

\* C16: apiRequest sends the merge of the content-type header, the credential
\* header and the caller's headers, and under every header name the caller
\* supplied it sends the caller's value alone.
C16_CallerHeadersWin ==
    fetched.op = "apiRequest" =>
        \A name \in HeaderNames :
            Wire(fetched.headers, name) =
                IF Wire(fetched.init.entries, name) # <<>>
                THEN Wire(fetched.init.entries, name)
                ELSE OwnValue(name, fetched.tokenAt)

\* a comes before b in a settle trace
Before(trace, a, b) ==
    \E i \in 1 .. Len(trace) : \E j \in i + 1 .. Len(trace) :
        trace[i] = a /\ trace[j] = b

\* C17: a login that resolves on a success response carrying an access_token
\* has stored that token before it resolved, so the stored credential is
\* exactly the returned token.
C17_LoginStoresToken ==
    (/\ settled.op = "login"
     /\ settled.state = "fulfilled"
     /\ settled.resp.body.access_token # ABSENT)
        => /\ token = settled.resp.body.access_token
           /\ Before(settled.trace, "setItem", "fulfilled")

\* a login replaced an earlier credential by the token of its response
C17_Witness ==
    /\ settled.op = "login"
    /\ settled.state = "fulfilled"
    /\ settled.tokenBefore = "tokA"
    /\ settled.resp.body.access_token = "tokB"
    /\ token = "tokB"

\* C18: a login that fails (failure status, network failure, unparsable
\* success body) leaves the credential as it was before the call.
C18_FailedLoginKeepsCredential ==
    (settled.op = "login" /\ settled.state = "rejected")
        => /\ token = settled.tokenBefore
           /\ \A i \in 1 .. Len(settled.trace) : settled.trace[i] # "setItem"

\* a login failed on a failure status whose body carried a token, and on an
\* unparsable success body, with an earlier credential stored
C18_Witness ==
    /\ settled.op = "login"
    /\ settled.state = "rejected"
    /\ settled.tokenBefore = "tokA"
    /\ token = "tokA"
    /\ \/ ~settled.resp.ok /\ settled.resp.body.access_token = "tokB"
       \/ settled.resp.ok /\ settled.resp.body.kind = "unparsable"

\* C19: once logout has settled, whether the notification succeeded, the
\* backend answered with a failure status or the network call failed, the
\* credential is absent.
C19_LogoutAlwaysClears ==
    settled.op = "logout"
        => /\ token = NULL
           /\ \/ Before(settled.trace, "removeItem", "fulfilled")
              \/ Before(settled.trace, "removeItem", "rejected")

\* a logout whose notification failed on the network removed a credential
C19_Witness ==
    /\ settled.op = "logout"
    /\ settled.state = "rejected"
    /\ settled.resp.kind = "network"
    /\ settled.tokenBefore = "tokA"
    /\ token = NULL

----------------------------------------------------------------------------
(* Claims about both clients, checked under SpecAll *)

\* the steps that stand for authApi.login and authApi.logout
LoginOps == {"login", "setItem"}
LogoutOps == {"logout", "removeItem"}

\* C20: the credential is written only by login, which sets it, and logout,
\* which clears it; a generic request whatever its outcome, an upload, an
\* export, and connect, reconnect, send and disconnect of WebSocketClient
\* leave it unchanged.
C20_OnlyLoginAndLogoutWrite ==
    [][ /\ token' # token =>
              \/ obs'.op \in LoginOps /\ token' # NULL
              \/ obs'.op \in LogoutOps /\ token' = NULL
        /\ obs'.op \notin LoginOps \cup LogoutOps => token' = token ]_vars

\* a generic request was answered 401 and the credential is still stored
C20_Witness ==
    /\ obs.op = "apiRequest"
    /\ settled.op = "apiRequest"
    /\ settled.state = "rejected"
    /\ settled.resp.status = 401
    /\ settled.tokenBefore = "tokA"
    /\ token = "tokA"

----------------------------------------------------------------------------
(* Claims about the failures of the Request Client, checked under SpecApi *)

\* the last operation settled on a failure status
FailureStatus == settled.resp.kind = "http" /\ ~settled.resp.ok

\* C21: on a failure status with a body that cannot be parsed, apiRequest
\* fails with the message 'Unknown error' and uploadFile with 'Upload failed'.
C21_FallbackMessage ==
    (FailureStatus /\ settled.resp.body.kind = "unparsable")
        => /\ settled.op = "apiRequest" =>
                 /\ settled.state = "rejected"
                 /\ settled.kind = "Error"
                 /\ settled.error = "Unknown error"
           /\ settled.op = "uploadFile" =>
                 /\ settled.state = "rejected"
                 /\ settled.kind = "Error"
                 /\ settled.error = "Upload failed"

\* a generic request was answered 500 with an unparsable body
C21_Witness ==
    /\ settled.op = "apiRequest"
    /\ settled.resp.status = 500
    /\ settled.resp.body.kind = "unparsable"
    /\ settled.error = "Unknown error"

\* the body of the last response has a structured message
HasDetail == settled.resp.body.kind = "object" /\ settled.resp.body.detail # ABSENT

\* C22: on a failure status apiRequest and uploadFile fail with the message of
\* the body when it has one, and with a non-empty fallback message otherwise.
C22_MessageOrFallback ==
    (FailureStatus /\ settled.op \in {"apiRequest", "uploadFile"})
        => /\ settled.state = "rejected"
           /\ IF HasDetail
              THEN settled.error = settled.resp.body.detail
              ELSE settled.error # ""

\* the failure of the last operation is one a response could have produced
LikeAnApplicationError ==
    \E op \in Ops : \E resp \in Responses :
        /\ resp.kind = "http"
        /\ ResultOf(op, resp).state = settled.state
        /\ ResultOf(op, resp).kind = settled.kind
        /\ ResultOf(op, resp).error = settled.error

\* C23: an operation whose fetch() got no response fails with the failure of
\* fetch() itself, which no response of the backend produces: neither a
\* fallback message nor a message taken from a body.
C23_TransportFailureDistinct ==
    (settled.op \in Ops /\ settled.resp.kind = "network")
        => /\ settled.state = "rejected"
           /\ settled.kind = "TypeError"
           /\ settled.error = "Failed to fetch"
           /\ ~LikeAnApplicationError

\* a generic request failed on the network
C23_Witness ==
    /\ settled.op = "apiRequest"
    /\ settled.resp.kind = "network"
    /\ settled.state = "rejected"
    /\ settled.kind = "TypeError"

\* the number of fetch() calls in the trace of a step
RECURSIVE Fetches(_)
Fetches(trace) ==
    IF trace = <<>> THEN 0
    ELSE (IF Head(trace).ev = "fetch" THEN 1 ELSE 0) + Fetches(Tail(trace))

\* C24: an invocation of apiRequest calls fetch() once; when the response or
\* the network failure is there it ends without another call, whatever the
\* outcome, and neither step touches the credential or the push channel.
C24_OneCallNoRetry ==
    [][ obs'.op = "apiRequest" =>
            /\ DidIn(obs', "settle") =>
                  /\ Fetches(obs'.trace) = 0
                  /\ pending' = pending (-) One("apiRequest")
                  /\ fetched' = fetched
            /\ ~DidIn(obs', "settle") =>
                  /\ Fetches(obs'.trace) = 1
                  /\ pending' = pending (+) One("apiRequest")
                  /\ settled' = settled
            /\ UNCHANGED <<token, ws, orphans, reconnectAttempts, timers>> ]_vars

\* a generic request failed on the network and nothing is in flight
C24_Witness ==
    /\ obs.op = "apiRequest"
    /\ Did("settle")
    /\ settled.op = "apiRequest"
    /\ settled.resp.kind = "network"
    /\ pending = EmptyBag

----------------------------------------------------------------------------
(* Claims about the reconnect policy under re-entry, checked under Spec *)

\* C26: at most one reconnect timer is pending at any time, also when the
\* consumer calls connect() again while a connection is live or a timer is
\* pending.
C26_AtMostOnePendingTimer ==
    BagCardinality(timers) <= 1

\* nothing of the client can fire: no unclosed socket, no pending timer
Quiet == Objects = {} /\ timers = EmptyBag

\* C27: every connection attempt, the timer's included, tests the credential
\* stored when it runs; without one it creates no socket and arms nothing,
\* and when no socket is left to fire a close event and no timer is pending,
\* nothing runs until the consumer acts, whatever the attempt counter.
C27_ClearedCredentialEndsRetries ==
    [][ /\ obs'.op = "connect" =>
              /\ DidIn(obs', "new WebSocket") => token # NULL
              /\ token = NULL =>
                    /\ DidIn(obs', "console.error:No authentication token found")
                    /\ UNCHANGED <<ws, orphans, reconnectAttempts>>
                    /\ BagCardinality(timers') <= BagCardinality(timers)
        /\ Quiet => /\ obs'.caller = "consumer"
                    /\ timers' = EmptyBag ]_vars

\* the timer ran connect() after the credential was removed: no socket, no
\* timer, and the counter below the maximum
C27_Witness ==
    /\ obs.op = "connect"
    /\ obs.caller = "timer"
    /\ Did("console.error:No authentication token found")
    /\ token = NULL
    /\ reconnectAttempts = 1
    /\ reconnectAttempts < maxReconnectAttempts
    /\ Quiet

----------------------------------------------------------------------------
(* A claim about the number of automatic attempts, checked under SpecAuto *)

\* C25: the attempt counter stays within 0 .. maxReconnectAttempts, and
\* between two successful opens the timers make at most maxReconnectAttempts
\* connection attempts, under any interleaving of connect(), disconnect(),
\* socket events and timer firings.
C25_BoundedAutomaticAttempts ==
    /\ reconnectAttempts \in 0 .. maxReconnectAttempts
    /\ autoAttempts <= maxReconnectAttempts

----------------------------------------------------------------------------
(* Claims about logout and login in flight together, checked under SpecApi *)

\* C28: a logout whose notification failed, on a failure status or on the
\* network, rejects with that failure, and only after the credential was
\* removed; it resolves only when the notification succeeded.
C28_LogoutRejectsAfterClearing ==
    settled.op = "logout" =>
        /\ settled.resp.kind = "network" =>
              /\ settled.state = "rejected"
              /\ settled.kind = "TypeError"
              /\ settled.error = "Failed to fetch"
        /\ FailureStatus =>
              /\ settled.state = "rejected"
              /\ settled.error # ""
              /\ HasDetail => settled.error = settled.resp.body.detail
        /\ settled.state = "fulfilled" =>
              settled.resp.kind = "http" /\ settled.resp.ok
        /\ settled.state = "rejected" =>
              /\ Before(settled.trace, "removeItem", "rejected")
              /\ token = NULL

\* a logout answered 401 rejected with the message of the body, the credential
\* removed
C28_Witness ==
    /\ settled.op = "logout"
    /\ settled.state = "rejected"
    /\ settled.resp.status = 401
    /\ settled.error = "Not authenticated"
    /\ settled.tokenBefore = "tokA"
    /\ token = NULL

\* a login was the last call invoked and the last to settle, it resolved, and
\* the one call still in flight is a logout: that logout was invoked before
\* the login, and no logout has been invoked since
LogoutInFlightBeforeLogin ==
    /\ fetched.op = "login"
    /\ settled.op = "login"
    /\ settled.state = "fulfilled"
    /\ token = Stored(settled.resp.body.access_token)
    /\ pending = One("logout")

\* C29: once a login has resolved and no logout is invoked after it, the
\* credential stays that login's token; a logout started before the login
\* does not remove it when it completes.
C29_StaleLogoutKeepsCredential ==
    [][ LogoutInFlightBeforeLogin => token' = token ]_vars

----------------------------------------------------------------------------
(* A claim about getRagSuggestions, checked under SpecRag *)

\* currentConfiguration is a string of at least ten characters
ConfigurationGiven(form) ==
    /\ form.currentConfiguration.kind = "string"
    /\ Len(form.currentConfiguration.text) >= minConfiguration

\* C30: getRagSuggestions always returns a state.  On a form whose
\* currentConfiguration is missing or shorter than 10 characters the state
\* is 'Invalid form data' with a non-empty issues list, the submitted fields
\* and no data, and the service is not called; the service is called for
\* valid forms only; a state has data only when the form was valid and the
\* service resolved; a service failure gives the generic error message with
\* the submitted fields and no data.
C30_SuggestionsValidatedAndAbsorbed ==
    /\ rag.calls > 0 => ConfigurationGiven(rag.form) /\ Issues(rag.form) = <<>>
    /\ rag.stage = "returned" =>
          /\ rag.state.message # ""
          /\ ~ConfigurationGiven(rag.form) =>
                /\ rag.state.message = "Invalid form data"
                /\ "issues" \in rag.state.own /\ rag.state.issues # <<>>
                /\ "fields" \in rag.state.own /\ rag.state.fields = rag.form
                /\ "data" \notin rag.state.own
                /\ rag.calls = 0
          /\ "data" \in rag.state.own =>
                /\ ConfigurationGiven(rag.form)
                /\ rag.calls = 1
                /\ rag.outcome = "resolved"
          /\ rag.outcome = "rejected" =>
                /\ rag.state.message
                       = "An error occurred while generating suggestions. Please try again."
                /\ "fields" \in rag.state.own /\ rag.state.fields = rag.form
                /\ "data" \notin rag.state.own

\* a form with nine characters of configuration came back as invalid
C30_Witness ==
    /\ rag.stage = "returned"
    /\ rag.form.currentConfiguration = Text(9)
    /\ rag.state.message = "Invalid form data"
    /\ rag.state.issues = <<"Current configuration must be at least 10 characters.">>
    /\ rag.calls = 0

====
